---- MODULE Spec2Model ----
(***************************************************************************)
(* Model of the animal-report mobile client.                               *)
(*                                                                         *)
(*   src/app/config/backend.ts      getBackendBaseUrl, getReportUrl        *)
(*   src/app/app/(tabs)/index.tsx   BACKEND_URL, HomeScreen.requestAndSend *)
(*                                                                         *)
(* Strings are sequences of one-character strings, so that the regular     *)
(* expression replace and the template concatenation are computed and not  *)
(* assumed.  Each requestAndSend call is one operation "op"; an action is   *)
(* one run of its code between two awaits (the continuation of a settled   *)
(* promise runs as one microtask, so it is atomic with respect to presses  *)
(* and to the other operations).                                           *)
(***************************************************************************)
EXTENDS Integers, Sequences, FiniteSets, TLC

\* ------------------------------------------------------------------ bounds
\* longest configured URL string explored for the resolver
MaxLen == 3
\* number of button presses (requestAndSend operations) explored
MaxPress == 2

\* ----------------------------------------------------------------- strings
Char == {"a", "/"}

\* all strings over Char of length 0..n
Strings(n) == UNION {[1..k -> Char] : k \in 0..n}

\* JavaScript `undefined` (an unset environment variable, a missing manifest
\* field); a value that is no string over Char
Undefined == <<"undefined">>

\* "/report"
ReportPath == <<"/", "r", "e", "p", "o", "r", "t">>

\* the literal "https://animal-report-api.onrender.com"
OnrenderLiteral ==
    <<"h", "t", "t", "p", "s", ":", "/", "/", "a", "n", "i", "m", "a", "l", "-",
      "r", "e", "p", "o", "r", "t", "-", "a", "p", "i", ".", "o", "n", "r", "e",
      "n", "d", "e", "r", ".", "c", "o", "m">>

VARIABLES
    env,        \* process.env.EXPO_PUBLIC_BACKEND_URL
    extra,      \* Constants.expoConfig?.extra?.backendUrl
    returned,   \* values returned by calls of the resolver: [fn, value]
    loading,    \* HomeScreen state: const [loading, setLoading] = useState(false)
    pc,         \* per operation: the await it is suspended at
    type,       \* per operation: the argument of requestAndSend
    status,     \* per operation: local `status` of the permission response
    loc,        \* per operation: local `loc`, <<>> until the position is read
    resp,       \* per operation: local `resp`, <<>> or <<HTTP status>>
    text,       \* per operation: whether local `text` (the body) has been read
    pending,    \* promises awaited and not yet settled: [op, call]
    apiCalls,   \* per operation: the asynchronous calls it made, in order
    requests,   \* per operation: the fetch requests it issued
    alerts,     \* per operation: titles of the Alert.alert dialogs it showed
    console     \* per operation: what it passed to console.log

screenVars == <<loading, pc, type, status, loc, resp, text, pending, apiCalls,
                requests, alerts, console>>
vars == <<env, extra, returned, loading, pc, type, status, loc, resp, text,
          pending, apiCalls, requests, alerts, console>>

\* ------------------------------------------------- Backend URL Resolver
\* JavaScript truthiness of a string-or-undefined value (operand of ||)
Truthy(v) == v # Undefined /\ v # <<>>

\* a || b
Or(a, b) == IF Truthy(a) THEN a ELSE b

\* bug variant: replace(/\/$/, "") removes a single slash only
stripOneTrailingSlash(s) ==
    IF s # <<>> /\ s[Len(s)] = "/" THEN SubSeq(s, 1, Len(s) - 1) ELSE s

\* s.replace(/\/+$/, ""): the leftmost match of "one or more slashes, then
\* the end of the string" is the whole trailing run of slashes
RECURSIVE stripTrailingSlashes(_)
stripTrailingSlashes(s) ==
    IF s # <<>> /\ s[Len(s)] = "/"
    THEN stripTrailingSlashes(SubSeq(s, 1, Len(s) - 1))
    ELSE s

FALLBACK == OnrenderLiteral

getBackendBaseUrl == stripTrailingSlashes(Or(env, Or(extra, FALLBACK)))

\* bug variant: the path is appended without its leading slash
getReportUrlNoSlash == getBackendBaseUrl \o SubSeq(ReportPath, 2, Len(ReportPath))

getReportUrl == getBackendBaseUrl \o ReportPath

\* ------------------------------------------------------- Report Screen
\* module-level constants of index.tsx, evaluated when the module loads
BACKEND_BASE_URL == Or(env, OnrenderLiteral)

BACKEND_URL == stripTrailingSlashes(BACKEND_BASE_URL) \o ReportPath

Ops == 1..MaxPress
Types == {"dead", "injured"}
PermissionStatuses == {"granted", "denied", "undetermined"}
HttpStatuses == {200, 299, 300, 500}
Positions == {[latitude |-> 0, longitude |-> 0]}

PermissionNeeded == "Permission needed"
ThankYou == "Thank you"
ErrorTitle == "Error"

\* bug variant: only "denied" is refused
isGrantedNotDenied(s) == s # "denied"

\* status === "granted" (the test of line 32, negated there)
isGranted(s) == s = "granted"

\* bug variants of resp.ok
respOkOnly200(st) == st = 200

respOkFrom200(st) == st >= 200

\* resp.ok: the status is in the range 200-299
respOk(st) == st \in 200..299

Promise(op, call) == [op |-> op, call |-> call]

\* the promise `settled` of op is consumed by its await and op makes the
\* asynchronous calls `calls`, which become outstanding
Step(op, settled, calls) ==
    /\ pending' = (pending \ {Promise(op, settled)})
                    \cup {Promise(op, calls[i]) : i \in DOMAIN calls}
    /\ apiCalls' = [apiCalls EXCEPT ![op] = @ \o calls]

\* bug variant: the position read is started together with the permission
\* request instead of after it
FirstCallsBoth == <<"requestForegroundPermissionsAsync", "getCurrentPositionAsync">>

\* the call requestAndSend makes before its first await
FirstCalls == <<"requestForegroundPermissionsAsync">>

\* fetch(BACKEND_URL, {method, headers, body: JSON.stringify(payload)})
Request(op, p) ==
    [url |-> BACKEND_URL, method |-> "POST", contentType |-> "application/json",
     body |-> [type |-> type[op], latitude |-> p.latitude,
               longitude |-> p.longitude]]

\* catch (err) { console.log(err); Alert.alert("Error", ...) }
Catch(op, err) ==
    /\ console' = [console EXCEPT ![op] = Append(@, err)]
    /\ alerts' = [alerts EXCEPT ![op] = Append(@, ErrorTitle)]

\* bug variant: no cleanup, the flag is left as it is
FinallyMissing(op) ==
    /\ loading' = loading
    /\ pc' = [pc EXCEPT ![op] = "done"]

\* finally { setLoading(false) }, after which the operation is over
Finally(op) ==
    /\ loading' = FALSE
    /\ pc' = [pc EXCEPT ![op] = "done"]

\* onPress={() => requestAndSend(t)}: the code up to the first await
Press(t) ==
    /\ \E op \in Ops :
        /\ pc[op] = "idle"
        /\ \A o \in Ops : o < op => pc[o] # "idle"
        /\ loading' = TRUE
        /\ type' = [type EXCEPT ![op] = t]
        /\ pc' = [pc EXCEPT ![op] = "permission"]
        /\ Step(op, "onPress", FirstCalls)
    /\ UNCHANGED <<env, extra, returned, status, loc, resp, text, requests,
                   alerts, console>>

\* requestForegroundPermissionsAsync() resolves with {status: s}
PermissionResolved(op, s) ==
    /\ pc[op] = "permission"
    /\ status' = [status EXCEPT ![op] = s]
    /\ IF ~isGranted(s)
       THEN \* Alert.alert; setLoading(false); return; then the finally block
            /\ alerts' = [alerts EXCEPT ![op] = Append(@, PermissionNeeded)]
            /\ loading' = FALSE
            /\ pc' = [pc EXCEPT ![op] = "done"]
            /\ Step(op, "requestForegroundPermissionsAsync", <<>>)
       ELSE /\ Step(op, "requestForegroundPermissionsAsync",
                    <<"getCurrentPositionAsync">>)
            /\ pc' = [pc EXCEPT ![op] = "position"]
            /\ UNCHANGED <<alerts, loading>>
    /\ UNCHANGED <<env, extra, returned, type, loc, resp, text, requests, console>>

\* requestForegroundPermissionsAsync() rejects
PermissionRejected(op) ==
    /\ pc[op] = "permission"
    /\ Step(op, "requestForegroundPermissionsAsync", <<>>)
    /\ Catch(op, "permission request failed")
    /\ Finally(op)
    /\ UNCHANGED <<env, extra, returned, type, status, loc, resp, text, requests>>

\* getCurrentPositionAsync({}) resolves with p: the payload is built and
\* the POST is issued
PositionResolved(op, p) ==
    /\ pc[op] = "position"
    /\ loc' = [loc EXCEPT ![op] = <<p>>]
    /\ requests' = [requests EXCEPT ![op] = Append(@, Request(op, p))]
    /\ Step(op, "getCurrentPositionAsync", <<"fetch">>)
    /\ pc' = [pc EXCEPT ![op] = "fetch"]
    /\ UNCHANGED <<env, extra, returned, loading, type, status, resp, text,
                   alerts, console>>

\* getCurrentPositionAsync({}) rejects
PositionRejected(op) ==
    /\ pc[op] = "position"
    /\ Step(op, "getCurrentPositionAsync", <<>>)
    /\ Catch(op, "position read failed")
    /\ Finally(op)
    /\ UNCHANGED <<env, extra, returned, type, status, loc, resp, text, requests>>

\* fetch(...) resolves with a response of status st; its body is then read
FetchResolved(op, st) ==
    /\ pc[op] = "fetch"
    /\ resp' = [resp EXCEPT ![op] = <<st>>]
    /\ Step(op, "fetch", <<"text">>)
    /\ pc' = [pc EXCEPT ![op] = "text"]
    /\ UNCHANGED <<env, extra, returned, loading, type, status, loc, text,
                   requests, alerts, console>>

\* bug variant: a failed request is sent once more before giving up
FetchRejectedRetry(op) ==
    /\ pc[op] = "fetch"
    /\ IF Len(requests[op]) < 2
       THEN /\ requests' = [requests EXCEPT ![op] = Append(@, @[1])]
            /\ Step(op, "fetch", <<"fetch">>)
            /\ UNCHANGED <<console, alerts, loading, pc>>
       ELSE /\ Step(op, "fetch", <<>>)
            /\ Catch(op, "Network request failed")
            /\ Finally(op)
            /\ UNCHANGED requests
    /\ UNCHANGED <<env, extra, returned, type, status, loc, resp, text>>

\* fetch(...) rejects (transport failure)
FetchRejected(op) ==
    /\ pc[op] = "fetch"
    /\ Step(op, "fetch", <<>>)
    /\ Catch(op, "Network request failed")
    /\ Finally(op)
    /\ UNCHANGED <<env, extra, returned, type, status, loc, resp, text, requests>>

\* resp.text() resolves: the status is tested and the outcome shown
TextResolved(op) ==
    /\ pc[op] = "text"
    /\ text' = [text EXCEPT ![op] = TRUE]
    /\ Step(op, "text", <<>>)
    /\ IF ~respOk(resp[op][1])
       THEN Catch(op, "Server error")
       ELSE /\ alerts' = [alerts EXCEPT ![op] = Append(@, ThankYou)]
            /\ UNCHANGED console
    /\ Finally(op)
    /\ UNCHANGED <<env, extra, returned, type, status, loc, resp, requests>>

\* resp.text() rejects (the body cannot be read)
TextRejected(op) ==
    /\ pc[op] = "text"
    /\ Step(op, "text", <<>>)
    /\ Catch(op, "body read failed")
    /\ Finally(op)
    /\ UNCHANGED <<env, extra, returned, type, status, loc, resp, text, requests>>

\* a caller evaluates getBackendBaseUrl()
CallGetBackendBaseUrl ==
    /\ \A r \in returned : r.fn # "getBackendBaseUrl"
    /\ returned' = returned \cup
                     {[fn |-> "getBackendBaseUrl", value |-> getBackendBaseUrl]}
    /\ UNCHANGED <<env, extra>>
    /\ UNCHANGED screenVars

\* a caller evaluates getReportUrl()
CallGetReportUrl ==
    /\ \A r \in returned : r.fn # "getReportUrl"
    /\ returned' = returned \cup {[fn |-> "getReportUrl", value |-> getReportUrl]}
    /\ UNCHANGED <<env, extra>>
    /\ UNCHANGED screenVars

\* ------------------------------------------------------- specifications
\* configurations of the two optional sources explored with the screen
ScreenSources == {Undefined, <<>>, <<"a">>, <<"a", "/">>}

\* the screen as mounted: useState(false), nothing pressed yet
InitScreen ==
    /\ loading = FALSE
    /\ pc = [op \in Ops |-> "idle"]
    /\ type = [op \in Ops |-> "none"]
    /\ status = [op \in Ops |-> "none"]
    /\ loc = [op \in Ops |-> <<>>]
    /\ resp = [op \in Ops |-> <<>>]
    /\ text = [op \in Ops |-> FALSE]
    /\ pending = {}
    /\ apiCalls = [op \in Ops |-> <<>>]
    /\ requests = [op \in Ops |-> <<>>]
    /\ alerts = [op \in Ops |-> <<>>]
    /\ console = [op \in Ops |-> <<>>]

Init ==
    /\ env \in ScreenSources
    /\ extra \in ScreenSources
    /\ returned = {}
    /\ InitScreen

Next ==
    \/ \E t \in Types : Press(t)
    \/ \E op \in Ops, s \in PermissionStatuses : PermissionResolved(op, s)
    \/ \E op \in Ops : PermissionRejected(op)
    \/ \E op \in Ops, p \in Positions : PositionResolved(op, p)
    \/ \E op \in Ops : PositionRejected(op)
    \/ \E op \in Ops, st \in HttpStatuses : FetchResolved(op, st)
    \/ \E op \in Ops : FetchRejected(op)
    \/ \E op \in Ops : TextResolved(op)
    \/ \E op \in Ops : TextRejected(op)

Spec == Init /\ [][Next]_vars

InitUrl ==
    /\ env \in Strings(MaxLen) \cup {Undefined}
    /\ extra \in Strings(MaxLen) \cup {Undefined}
    /\ returned = {}
    /\ InitScreen

NextUrl ==
    \/ CallGetBackendBaseUrl
    \/ CallGetReportUrl

SpecUrl == InitUrl /\ [][NextUrl]_vars

\* ------------------------------------------------------------- properties
NonEmpty(v) == v # Undefined /\ Len(v) > 0

\* the first non-empty source, in the order environment, manifest, fallback
Winner ==
    IF NonEmpty(env) THEN env ELSE IF NonEmpty(extra) THEN extra ELSE FALLBACK

\* v is w without its trailing slashes
IsStripped(v, w) ==
    /\ Len(v) <= Len(w)
    /\ v = SubSeq(w, 1, Len(v))
    /\ \A i \in (Len(v) + 1)..Len(w) : w[i] = "/"
    /\ v # <<>> => v[Len(v)] # "/"

Has(seq, x) == \E i \in DOMAIN seq : seq[i] = x

\* op finishes in this step
Completes(op) == pc[op] # "done" /\ pc'[op] = "done"

Outstanding(op) == {p \in pending : p.op = op}

\* C1: getBackendBaseUrl() returns the first non-empty source in the order
\* environment > manifest extra > fallback, with all of its trailing slashes
\* removed, so the result never ends in "/".
C1_ResolverPriorityAndStrip ==
    \A r \in returned :
        r.fn = "getBackendBaseUrl" => IsStripped(r.value, Winner)

\* C1 happens: the environment is empty, the manifest value "a//" wins and
\* both of its slashes are removed.
C1_Witness ==
    /\ env = <<>>
    /\ extra = <<"a", "/", "/">>
    /\ [fn |-> "getBackendBaseUrl", value |-> <<"a">>] \in returned

\* C2: getReportUrl() is getBackendBaseUrl() followed by "/report"; with the
\* environment value "a/" it is "a/report".
C2_ReportUrlIsBasePlusReport ==
    \A r \in returned :
        r.fn = "getReportUrl" =>
            /\ r.value = getBackendBaseUrl \o <<"/", "r", "e", "p", "o", "r", "t">>
            /\ \A b \in returned :
                b.fn = "getBackendBaseUrl" =>
                    r.value = b.value \o <<"/", "r", "e", "p", "o", "r", "t">>
            /\ env = <<"a", "/">> =>
                r.value = <<"a", "/", "r", "e", "p", "o", "r", "t">>

\* C2 happens: both functions were called with the environment value "a/".
C2_Witness ==
    /\ env = <<"a", "/">>
    /\ [fn |-> "getBackendBaseUrl", value |-> <<"a">>] \in returned
    /\ [fn |-> "getReportUrl",
        value |-> <<"a", "/", "r", "e", "p", "o", "r", "t">>] \in returned

\* C3: when the permission request resolves with a status other than
\* "granted", the operation never reads the position nor issues a request, it
\* shows the permission-needed alert and nothing else, and it ends with
\* loading = false.
C3_DeniedNoNetwork ==
    [][\A op \in Ops :
        status'[op] \notin {"none", "granted"} =>
            /\ requests'[op] = <<>>
            /\ apiCalls'[op] = <<"requestForegroundPermissionsAsync">>
            /\ Outstanding(op)' = {}
            /\ alerts'[op] = <<PermissionNeeded>>
            /\ console'[op] = <<>>
            /\ pc'[op] = "done"
            /\ Completes(op) => loading' = FALSE]_vars

\* C3 happens: an operation was refused ("undetermined") while another one
\* was granted and went on.
C3_Witness ==
    \E op, other \in Ops :
        /\ pc[op] = "done"
        /\ status[op] = "undetermined"
        /\ alerts[op] = <<PermissionNeeded>>
        /\ requests[op] = <<>>
        /\ status[other] = "granted"

\* C4 as amended: permission granted, a response with a status in 200-299 and
\* its body read: the success alert is shown exactly once, no error alert is
\* shown, nothing is logged, and the operation ends with loading = false.
C4_SuccessWhenBodyRead ==
    [][\A op \in Ops :
        /\ (/\ Completes(op)
            /\ status'[op] = "granted"
            /\ resp'[op] # <<>>
            /\ resp'[op][1] \in 200..299
            /\ text'[op])
           => /\ alerts'[op] = <<ThankYou>>
              /\ console'[op] = <<>>
              /\ loading' = FALSE
        /\ pc[op] = "done" => alerts'[op] = alerts[op]]_vars

\* C4 happens: an operation ended with status 299 and the success alert.
C4_Witness ==
    \E op \in Ops :
        /\ pc[op] = "done"
        /\ status[op] = "granted"
        /\ resp[op] = <<299>>
        /\ text[op]
        /\ alerts[op] = <<ThankYou>>
        /\ ~loading

\* C4 as stated: permission granted and a response with a status in 200-299:
\* the success alert is shown exactly once, no error alert is shown, and the
\* operation ends with loading = false.
C4_Original ==
    [][\A op \in Ops :
        (/\ Completes(op)
         /\ status'[op] = "granted"
         /\ resp'[op] # <<>>
         /\ resp'[op][1] \in 200..299)
        => /\ alerts'[op] = <<ThankYou>>
           /\ loading' = FALSE]_vars

\* an error occurred in op after the permission was granted: an await
\* rejected or the response status is not 2xx
ErrorAfterGrant(op) ==
    /\ status[op] = "granted"
    /\ \/ loc[op] = <<>>
       \/ resp[op] = <<>>
       \/ resp[op][1] \notin 200..299
       \/ ~text[op]

\* C5: permission granted and then an error (the request throws, or the
\* response status is not 2xx): the error is logged, the generic error alert
\* is shown, no success alert is shown, and the operation ends with
\* loading = false.
C5_ErrorLoggedAndAlerted ==
    [][\A op \in Ops :
        (Completes(op) /\ ErrorAfterGrant(op)')
        => /\ Len(console'[op]) = 1
           /\ alerts'[op] = <<ErrorTitle>>
           /\ loading' = FALSE]_vars

\* C5 happens: one operation's request threw, another one got status 500.
C5_Witness ==
    \E op, other \in Ops :
        /\ pc[op] = "done" /\ pc[other] = "done"
        /\ status[op] = "granted" /\ status[other] = "granted"
        /\ Len(requests[op]) = 1 /\ resp[op] = <<>>
        /\ resp[other] = <<500>> /\ text[other]
        /\ alerts[op] = <<ErrorTitle>> /\ alerts[other] = <<ErrorTitle>>
        /\ console[other] = <<"Server error">>

\* C6: once every started operation has completed, whatever its outcome,
\* loading is false.
C6_IdleWhenAllCompleted ==
    (\A op \in Ops : pc[op] \in {"idle", "done"}) => loading = FALSE

\* C6 happens: every operation was started and has completed, one refused and
\* one with an error.
C6_Witness ==
    /\ \A op \in Ops : pc[op] = "done"
    /\ \E op \in Ops : alerts[op] = <<PermissionNeeded>>
    /\ \E op \in Ops : alerts[op] = <<ErrorTitle>>
    /\ ~loading

\* C7 as amended: a press whose permission request resolves "granted" and
\* whose position read resolves issues exactly one network call (no retry
\* after a failure), a press without both issues none, and each press issues
\* its own call whatever the other presses do.
C7_OneCallPerPositionRead ==
    \A op \in Ops :
        /\ Len(requests[op]) =
              IF status[op] = "granted" /\ loc[op] # <<>> THEN 1 ELSE 0
        /\ \A i \in DOMAIN requests[op] : requests[op][i].body.type = type[op]

\* C7 happens: two presses overlap and each has issued its own request; and
\* an operation whose request failed has completed without another one.
C7_Witness ==
    \E op, other \in Ops :
        /\ op # other
        /\ pc[op] = "done" /\ resp[op] = <<>> /\ Len(requests[op]) = 1
        /\ pc[other] = "fetch" /\ Len(requests[other]) = 1
        /\ type[op] # type[other]

\* C7 as stated: every press whose permission request resolves "granted"
\* issues exactly one network call.
C7_Original ==
    \A op \in Ops :
        (pc[op] = "done" /\ status[op] = "granted") => Len(requests[op]) = 1

\* C8: the URL requestAndSend POSTs to is the value of getReportUrl() under
\* the same configuration.
C8_PostsToReportUrl ==
    \A op \in Ops :
        \A i \in DOMAIN requests[op] : requests[op][i].url = getReportUrl

\* C9: the asynchronous steps of one operation run in sequence: the position
\* read starts only after the permission request has resolved "granted", the
\* network request only after the position read has resolved, and an
\* operation never has two of its own steps outstanding.
C9_StepsInSequence ==
    \A op \in Ops :
        /\ Cardinality(Outstanding(op)) <= 1
        /\ Has(apiCalls[op], "getCurrentPositionAsync") =>
              /\ status[op] = "granted"
              /\ Promise(op, "requestForegroundPermissionsAsync") \notin pending
        /\ Has(apiCalls[op], "fetch") =>
              /\ loc[op] # <<>>
              /\ Promise(op, "getCurrentPositionAsync") \notin pending
        /\ \E n \in 0..4 :
              apiCalls[op] =
                 SubSeq(<<"requestForegroundPermissionsAsync",
                          "getCurrentPositionAsync", "fetch", "text">>, 1, n)

\* C9 happens: an operation is waiting for its network request, its two
\* earlier steps settled.
C9_Witness ==
    \E op \in Ops :
        /\ Outstanding(op) = {Promise(op, "fetch")}
        /\ status[op] = "granted"
        /\ loc[op] # <<>>

\* C10: loading is true whenever at least one operation has started and not
\* yet completed.
C10_LoadingWhileOutstanding ==
    (\E op \in Ops : pc[op] \notin {"idle", "done"}) => loading = TRUE

====
